---- MODULE Spec2Model ----
(***************************************************************************)
(* Dekatrian <-> Gregorian date conversion (date_conversion.py).           *)
(*                                                                         *)
(* The program is a set of pure functions on integer (day, month, year)    *)
(* triples.  Each function is an operator computed the way the code        *)
(* computes it; the state machine draws the arguments of a call in Init    *)
(* and has one action per function, which stores the returned value.  A    *)
(* returned date may be fed to the opposite conversion (round trips).      *)
(***************************************************************************)
EXTENDS Integers, Sequences, FiniteSets, TLC

(* ---- bounds of the explored inputs ---- *)
YearLo == 1700
NumYears == 400
MaxOrdinal == 366

Years == YearLo .. (YearLo + NumYears - 1)

(* Argument ranges: Dekatrian month 0..13 / day 1..28, Gregorian month     *)
(* 1..12 / day 1..31.  They contain dates that are not valid (2/0 in a     *)
(* common year, 30/2, ...): the code validates nothing.                    *)
DekMonths == 0 .. 13
DekDays == 1 .. 28
GregMonths == 1 .. 12
GregDays == 1 .. 31

(* ---- the functions of date_conversion.py ---- *)

\* calendar.isleap(year)
isleap(year) == (year % 4 = 0) /\ ((year % 100 # 0) \/ (year % 400 = 0))

\* a Python bool used in integer arithmetic: True is 1, False is 0
Leap(year) == IF isleap(year) THEN 1 ELSE 0

\* the tuple gregorian_calendar_months built from JAN .. DEC (1-indexed here)
gregorian_calendar_months(year) ==
    <<31, 28 + Leap(year), 31, 30, 31, 30, 31, 31, 30, 31, 30, 31>>

\* dekatrian_week with the day taken 0-based twice: (dek_day % 7) + 1
dekatrian_week_shifted(dek_day, dek_month) ==
    IF dek_month = 0
    THEN 0
    ELSE (dek_day % 7) + 1

dekatrian_week(dek_day, dek_month) ==
    IF dek_month = 0
    THEN 0
    ELSE ((dek_day - 1) % 7) + 1

\* week_day_on_first_auroran without the 400-year term
week_day_on_first_auroran_no400(dek_year) ==
    ((1 + 5 * (dek_year % 4) + 4 * (dek_year % 100)) % 7) + 1

week_day_on_first_auroran(dek_year) ==
    ((1 + 5 * (dek_year % 4) + 4 * (dek_year % 100) + 6 * (dek_year % 400)) % 7) + 1

dek_to_week(dek_day, dek_month, dek_year) ==
    LET week_day ==
            ((week_day_on_first_auroran(dek_year)
                + dekatrian_week(dek_day, dek_month) - 2) % 7) + 1
    IN  IF dek_month = 0
        THEN ((week_day - 3 + dek_day) % 7) + 1
        ELSE week_day

\* year_day_on_deka_date without the leap day (Sinchronian) before month 1
year_day_on_deka_date_noleap(dek_day, dek_month, dek_year) ==
    IF dek_month = 0
    THEN dek_day
    ELSE 1 + (dek_month - 1) * 28 + dek_day

year_day_on_deka_date(dek_day, dek_month, dek_year) ==
    IF dek_month = 0
    THEN dek_day
    ELSE Leap(dek_year) + 1 + (dek_month - 1) * 28 + dek_day

\* the loop "while i < (month - 1): days += table[i]; i += 1", i 0-based
RECURSIVE SumMonths(_, _, _, _)
SumMonths(i, days, month, table) ==
    IF i < month - 1
    THEN SumMonths(i + 1, days + table[i + 1], month, table)
    ELSE days

year_day_on_greg_date(day, month, year) ==
    SumMonths(0, 0, month, gregorian_calendar_months(year)) + day

\* the walk with "year_day >= days" as the test
RECURSIVE MonthWalk_ge(_, _, _)
MonthWalk_ge(year_day, month, table) ==
    IF year_day >= table[month]
    THEN IF month = Len(table)
         THEN <<year_day - table[month], month>>
         ELSE MonthWalk_ge(year_day - table[month], month + 1, table)
    ELSE <<year_day, month>>

\* the loop "for month, days in enumerate(table, start=1)" of dek_to_greg:
\* subtract while year_day > days, break otherwise; when the table is
\* exhausted month keeps its last value, 12
RECURSIVE MonthWalk(_, _, _)
MonthWalk(year_day, month, table) ==
    IF year_day > table[month]
    THEN IF month = Len(table)
         THEN <<year_day - table[month], month>>
         ELSE MonthWalk(year_day - table[month], month + 1, table)
    ELSE <<year_day, month>>

\* lines 148-179 of dek_to_greg: from the year ordinal to the returned tuple
GregWalk(year_day, dek_year) ==
    LET r == MonthWalk(year_day, 1, gregorian_calendar_months(dek_year))
    IN  <<r[1], r[2], dek_year>>

\* NB line 147 takes the ordinal with year_day_on_greg_date
dek_to_greg(dek_day, dek_month, dek_year) ==
    GregWalk(year_day_on_greg_date(dek_day, dek_month, dek_year), dek_year)

\* greg_to_dek with the month taken from year_day / 28
greg_to_dek_month_off(day, month, year) ==
    LET year_day == year_day_on_greg_date(day, month, year)
    IN  IF year_day > 1 + Leap(year)
        THEN LET yd == year_day - (1 + Leap(year))
             IN  <<((yd - 1) % 28) + 1, (yd \div 28) + 1, year>>
        ELSE <<day, 0, year>>

\* greg_to_dek with two intercalary days in every year
greg_to_dek_always_two(day, month, year) ==
    LET year_day == year_day_on_greg_date(day, month, year)
    IN  IF year_day > 2
        THEN LET yd == year_day - 2
             IN  <<((yd - 1) % 28) + 1, ((yd - 1) \div 28) + 1, year>>
        ELSE <<day, 0, year>>

\* int((year_day - 1) / 28) truncates a non-negative quotient: \div
greg_to_dek(day, month, year) ==
    LET year_day == year_day_on_greg_date(day, month, year)
    IN  IF year_day > 1 + Leap(year)
        THEN LET yd == year_day - (1 + Leap(year))
             IN  <<((yd - 1) % 28) + 1, ((yd - 1) \div 28) + 1, year>>
        ELSE <<day, 0, year>>

(* ---- the state machine ---- *)

VARIABLES
    cal,    \* what the arguments are: "dek" date, "greg" date, "ord" ordinal
    args,   \* the arguments: <<day, month, year>>, or <<year_day, year>>
    pc,     \* the functions called so far, in order
    date,   \* the tuple returned by the last conversion (<<>> if none)
    val     \* the integer returned by the last integer function

vars == <<cal, args, pc, date, val>>

Init ==
    /\ \/ cal = "dek" /\ args \in DekDays \X DekMonths \X Years
       \/ cal = "greg" /\ args \in GregDays \X GregMonths \X Years
       \/ cal = "ord" /\ args \in (1 .. MaxOrdinal) \X Years
    /\ pc = <<>>
    /\ date = <<>>
    /\ val = 0

\* the date a call is made on: the arguments, or the date returned before
Cur == IF pc = <<>> THEN args ELSE date

CallDekToWeek ==
    /\ pc = <<>> /\ cal = "dek"
    /\ val' = dek_to_week(args[1], args[2], args[3])
    /\ pc' = <<"dek_to_week">>
    /\ UNCHANGED <<cal, args, date>>

CallDekatrianWeek ==
    /\ pc = <<>> /\ cal = "dek"
    /\ val' = dekatrian_week(args[1], args[2])
    /\ pc' = <<"dekatrian_week">>
    /\ UNCHANGED <<cal, args, date>>

CallWeekDayOnFirstAuroran ==
    /\ pc = <<>> /\ cal = "dek"
    /\ val' = week_day_on_first_auroran(args[3])
    /\ pc' = <<"week_day_on_first_auroran">>
    /\ UNCHANGED <<cal, args, date>>

CallYearDayOnDekaDate ==
    /\ pc = <<>> /\ cal = "dek"
    /\ val' = year_day_on_deka_date(args[1], args[2], args[3])
    /\ pc' = <<"year_day_on_deka_date">>
    /\ UNCHANGED <<cal, args, date>>

CallYearDayOnGregDate ==
    /\ pc = <<>> /\ cal = "greg"
    /\ val' = year_day_on_greg_date(args[1], args[2], args[3])
    /\ pc' = <<"year_day_on_greg_date">>
    /\ UNCHANGED <<cal, args, date>>

CallGregWalk ==
    /\ pc = <<>> /\ cal = "ord"
    /\ date' = GregWalk(args[1], args[2])
    /\ pc' = <<"walk">>
    /\ UNCHANGED <<cal, args, val>>

CallDekToGreg ==
    /\ \/ pc = <<>> /\ cal = "dek"
       \/ pc = <<"greg_to_dek">>
    /\ date' = dek_to_greg(Cur[1], Cur[2], Cur[3])
    /\ pc' = Append(pc, "dek_to_greg")
    /\ UNCHANGED <<cal, args, val>>

CallGregToDek ==
    /\ \/ pc = <<>> /\ cal = "greg"
       \/ pc = <<"dek_to_greg">>
    /\ date' = greg_to_dek(Cur[1], Cur[2], Cur[3])
    /\ pc' = Append(pc, "greg_to_dek")
    /\ UNCHANGED <<cal, args, val>>

Next ==
    \/ CallDekToWeek
    \/ CallDekatrianWeek
    \/ CallWeekDayOnFirstAuroran
    \/ CallYearDayOnDekaDate
    \/ CallYearDayOnGregDate
    \/ CallGregWalk
    \/ CallDekToGreg
    \/ CallGregToDek

Spec == Init /\ [][Next]_vars

TypeOK ==
    /\ cal \in {"dek", "greg", "ord"}
    /\ Len(pc) <= 2
    /\ val \in Int

(* ---- the calendars the properties are stated against ---- *)

\* length of Gregorian month m of year y
MonthLength(m, y) ==
    IF m = 2
    THEN (IF (y % 4 = 0) /\ ((y % 100 # 0) \/ (y % 400 = 0)) THEN 29 ELSE 28)
    ELSE IF m \in {4, 6, 9, 11} THEN 30 ELSE 31

ValidGreg(t) ==
    /\ t[2] \in 1 .. 12
    /\ t[1] \in 1 .. MonthLength(t[2], t[3])

\* Achronian is 1/0, Sinchronian 2/0 exists in leap years only
ValidDek(t) ==
    \/ t[2] = 0 /\ t[1] \in 1 .. (MonthLength(2, t[3]) - 27)
    \/ t[2] \in 1 .. 13 /\ t[1] \in 1 .. 28

\* days of the proleptic Gregorian calendar from 1 January of year 0 to
\* 1 January of year y (y >= 0): 365 a year, plus the leap years in 0 .. y-1
DaysBeforeYear(y) ==
    IF y = 0
    THEN 0
    ELSE 365 * y + ((y - 1) \div 4) - ((y - 1) \div 100) + ((y - 1) \div 400) + 1

\* weekday (1 = Sunday .. 7 = Saturday) of the n-th day of year y, by day
\* count; 1 January of year 0 is a Saturday
TrueWeekday(n, y) == ((6 + DaysBeforeYear(y) + (n - 1)) % 7) + 1

(* ---- properties ---- *)

\* C1: dek_to_greg of a valid Dekatrian date is the Gregorian date reached
\* by walking the month table on the Dekatrian year ordinal
\* year_day_on_deka_date; its Gregorian ordinal equals that Dekatrian
\* ordinal and the year is unchanged.
C1_DekToGregUsesDekaOrdinal ==
    (pc = <<"dek_to_greg">> /\ ValidDek(args)) =>
        /\ date = GregWalk(year_day_on_deka_date(args[1], args[2], args[3]), args[3])
        /\ year_day_on_greg_date(date[1], date[2], date[3])
              = year_day_on_deka_date(args[1], args[2], args[3])
        /\ date[3] = args[3]

\* C2: round trip from the Gregorian side: dek_to_greg(greg_to_dek(d, m, y))
\* is (d, m, y) for every valid Gregorian date.
C2_RoundTripGreg ==
    (pc = <<"greg_to_dek", "dek_to_greg">> /\ ValidGreg(args)) => date = args

\* C3: round trip from the Dekatrian side: greg_to_dek(dek_to_greg(d, m, y))
\* is (d, m, y) for every valid Dekatrian date.
C3_RoundTripDek ==
    (pc = <<"dek_to_greg", "greg_to_dek">> /\ ValidDek(args)) => date = args

\* C4: greg_to_dek of a valid Gregorian date is a valid Dekatrian date of
\* the same year whose Dekatrian year ordinal is the Gregorian year ordinal.
C4_GregToDekValidSameOrdinal ==
    (pc = <<"greg_to_dek">> /\ ValidGreg(args)) =>
        /\ ValidDek(date)
        /\ date[3] = args[3]
        /\ year_day_on_deka_date(date[1], date[2], date[3])
              = year_day_on_greg_date(args[1], args[2], args[3])

\* C4 witness: 31 December of a leap year was converted to 28/13
C4_Witness ==
    /\ pc = <<"greg_to_dek">>
    /\ args = <<31, 12, 2016>>
    /\ date = <<28, 13, 2016>>

\* C5: dek_to_week of a valid Dekatrian date, intercalary days included, is
\* the true Gregorian weekday of the day of the year at the ordinal
\* year_day_on_deka_date.
C5_DekToWeekIsTrueWeekday ==
    (pc = <<"dek_to_week">> /\ ValidDek(args)) =>
        val = TrueWeekday(year_day_on_deka_date(args[1], args[2], args[3]), args[3])

\* C6 as stated: week_day_on_first_auroran(y) is in 1..7 and is the weekday
\* of 1 January of year y.
C6_FirstAuroranIsJanuaryFirst ==
    (pc = <<"week_day_on_first_auroran">>) =>
        /\ val \in 1 .. 7
        /\ val = TrueWeekday(1, args[3])

\* C6 amended: week_day_on_first_auroran(y) is in 1..7 and is the weekday of
\* the first Auroran (Dekatrian 1/1), the day of year y at ordinal
\* 2 + leap(y): 2 January, or 3 January in a leap year.
C6_FirstAuroranIsFirstDayOfMonthOne ==
    (pc = <<"week_day_on_first_auroran">>) =>
        /\ val \in 1 .. 7
        /\ val = TrueWeekday(2 + (MonthLength(2, args[3]) - 28), args[3])

\* C6 witness: the call was made for leap year 2016 (3 January, a Sunday)
C6_Witness ==
    /\ pc = <<"week_day_on_first_auroran">>
    /\ args[3] = 2016
    /\ val = 1

\* C7: greg_to_dek of a valid Gregorian date at ordinal n returns month 0
\* exactly when n <= 1 + leap(y), then with day n; otherwise the month is
\* in 1..13.
C7_IntercalaryBound ==
    (pc = <<"greg_to_dek">> /\ ValidGreg(args)) =>
        LET n == year_day_on_greg_date(args[1], args[2], args[3])
        IN  /\ (date[2] = 0) <=> (n <= 1 + (MonthLength(2, args[3]) - 28))
            /\ (date[2] = 0) => (date[1] = n)
            /\ (date[2] # 0) => (date[2] \in 1 .. 13)

\* C7 witness: 2 January of a leap year became Sinchronian, 2/0
C7_Witness ==
    /\ pc = <<"greg_to_dek">>
    /\ args = <<2, 1, 2016>>
    /\ date = <<2, 0, 2016>>

\* C8: year_day_on_deka_date(28, 13, y) is 365 + leap(y), the ordinal of
\* 31 December, year_day_on_greg_date(31, 12, y).
C8_LastDayOrdinal ==
    (pc = <<"year_day_on_deka_date">> /\ args[1] = 28 /\ args[2] = 13) =>
        /\ val = 365 + (IF (args[3] % 4 = 0)
                            /\ ((args[3] % 100 # 0) \/ (args[3] % 400 = 0))
                        THEN 1 ELSE 0)
        /\ val = year_day_on_greg_date(31, 12, args[3])

\* C8 witness: the ordinal of 28/13 was taken in a leap year
C8_Witness ==
    /\ pc = <<"year_day_on_deka_date">>
    /\ args = <<28, 13, 2000>>
    /\ val = 366

\* C9: for months 1..13 dekatrian_week(d, m) is the same for every month,
\* lies in 1..7 and is ((d - 1) mod 7) + 1; for month 0 it is 0 for every d.
C9_WeekdayPeriodicity ==
    (pc = <<"dekatrian_week">>) =>
        /\ (args[2] \in 1 .. 13) =>
              /\ val \in 1 .. 7
              /\ (args[1] - val) % 7 = 0
              /\ \A m \in 1 .. 13 : dekatrian_week(args[1], m) = val
        /\ (args[2] = 0) => (val = 0)

\* C9 witness: day 28 of month 13 got position 7
C9_Witness ==
    /\ pc = <<"dekatrian_week">>
    /\ args[1] = 28 /\ args[2] = 13
    /\ val = 7

\* C10: the month-table walk inverts year_day_on_greg_date: from an ordinal
\* n in 1..365+leap(y) it stops at a month m in 1..12 with a day d in
\* 1..length(m), and year_day_on_greg_date(d, m, y) = n; n = 1 gives 1/1
\* and n = 365+leap(y) gives 31/12.
C10_WalkInvertsOrdinal ==
    (pc = <<"walk">> /\ args[1] \in 1 .. (337 + MonthLength(2, args[2]))) =>
        /\ date[2] \in 1 .. 12
        /\ date[1] \in 1 .. MonthLength(date[2], args[2])
        /\ year_day_on_greg_date(date[1], date[2], args[2]) = args[1]
        /\ (args[1] = 1) => (date = <<1, 1, args[2]>>)
        /\ (args[1] = 337 + MonthLength(2, args[2])) => (date = <<31, 12, args[2]>>)

\* C10 witness: ordinal 366 of a leap year was walked to 31 December
C10_Witness ==
    /\ pc = <<"walk">>
    /\ args = <<366, 2016>>
    /\ date = <<31, 12, 2016>>
====
